---- MODULE Spec2Model ----
(***************************************************************************)
(* Authentication core of the news/contact API: password hashing           *)
(* (auth.py), token issuance and validation (auth.py), and the auth        *)
(* endpoints of main.py (login, refresh, logout, /me, change-password).    *)
(*                                                                         *)
(* Time is counted in minutes.  A password is a sequence of Unicode code   *)
(* points; a byte string is a sequence of numbers 0..255.                  *)
(***************************************************************************)
EXTENDS Integers, Sequences, FiniteSets, TLC

VARIABLES users, now, ticks, dbops, issued, req, resp, news, contacts

vars == <<users, now, ticks, dbops, issued, req, resp, news, contacts>>

None == "None"

(***************************************************************************)
(* Bounds of the model.                                                    *)
(***************************************************************************)
\* longest tail appended to a padding of 'a's when enumerating passwords
MaxTail == 2
\* number of clock advances
MaxTicks == 1
\* number of token pairs issued by login/refresh
MaxIssued == 1
\* number of out-of-band changes of the users table
MaxDbOps == 1
MaxRows == 1

(***************************************************************************)
(* Configuration (auth.py:12-16).                                          *)
(***************************************************************************)
SECRET_KEY == "your-secret-key-change-this-in-production"
REFRESH_SECRET_KEY == "your-refresh-secret-key-change-this"
ACCESS_TOKEN_EXPIRE_MINUTES == 15
REFRESH_TOKEN_EXPIRE_DAYS == 7
MinutesPerDay == 1440
\* bcrypt input limit used by truncate_to_72_bytes
BcryptLimit == 72

(***************************************************************************)
(* str.encode('utf-8') of auth.py:30, code point by code point.            *)
(***************************************************************************)
utf8_char(c) ==
    IF c < 128 THEN <<c>>
    ELSE IF c < 2048 THEN <<192 + (c \div 64), 128 + (c % 64)>>
    ELSE IF c < 65536 THEN
        <<224 + (c \div 4096), 128 + ((c \div 64) % 64), 128 + (c % 64)>>
    ELSE <<240 + (c \div 262144), 128 + ((c \div 4096) % 64),
           128 + ((c \div 64) % 64), 128 + (c % 64)>>

RECURSIVE utf8_encode(_)
utf8_encode(s) ==
    IF s = <<>> THEN <<>> ELSE utf8_char(Head(s)) \o utf8_encode(Tail(s))

\* a variant that cuts one byte early
truncate_to_71_bytes(password) ==
    LET encoded == utf8_encode(password)
    IN  IF Len(encoded) > BcryptLimit - 1
        THEN SubSeq(encoded, 1, BcryptLimit - 1) ELSE encoded

truncate_to_72_bytes(password) ==
    LET encoded == utf8_encode(password)
    IN  IF Len(encoded) > BcryptLimit
        THEN SubSeq(encoded, 1, BcryptLimit) ELSE encoded

(***************************************************************************)
(* bcrypt.  A well-formed digest embeds its salt and stands for the bytes  *)
(* that were hashed (no collisions); Malformed stands for any stored       *)
(* string that bcrypt cannot parse, on which hashpw raises ValueError.     *)
(***************************************************************************)
Salts == {"saltA", "saltB"}
Malformed == [salt |-> "invalid", key |-> <<>>]

\* hashpw: "ok" with the digest, or "raise" (ValueError: Invalid salt)
bcrypt_hashpw(password_bytes, salt) ==
    IF salt \in Salts
    THEN [res |-> "ok", digest |-> [salt |-> salt, key |-> password_bytes]]
    ELSE [res |-> "raise", digest |-> Malformed]

\* checkpw re-hashes with the salt embedded in the digest and compares:
\* "True", "False" or "Raise"
bcrypt_checkpw(password_bytes, hashed) ==
    LET ret == bcrypt_hashpw(password_bytes, hashed.salt)
    IN  IF ret.res = "raise" THEN "Raise"
        ELSE IF ret.digest = hashed THEN "True" ELSE "False"

\* a variant whose except clause lets the caller through
verify_password_failopen(plain_password, hashed_password) ==
    bcrypt_checkpw(truncate_to_72_bytes(plain_password), hashed_password) # "False"

\* try: return checkpw(...)  except Exception: return False
verify_password(plain_password, hashed_password) ==
    bcrypt_checkpw(truncate_to_72_bytes(plain_password), hashed_password) = "True"

\* salt is the value drawn by bcrypt.gensalt
get_password_hash(password, salt) ==
    bcrypt_hashpw(truncate_to_72_bytes(password), salt).digest

(***************************************************************************)
(* Passwords.                                                              *)
(***************************************************************************)
\* 'a', e-acute (C3 A9) and a-tilde (C3 A3): the last two share their
\* first UTF-8 byte
Alphabet == {97, 233, 227}

RECURSIVE Rep(_, _)
Rep(c, n) == IF n = 0 THEN <<>> ELSE <<c>> \o Rep(c, n - 1)

Tails == UNION {[1..n -> Alphabet] : n \in 0..MaxTail}
PadLens == {0, BcryptLimit - 2, BcryptLimit - 1}
\* every password: a run of 'a' followed by a short tail
Passwords == {Rep(97, n) \o t : n \in PadLens, t \in Tails}

AdminPassword == <<97, 100, 109, 105, 110, 49, 50, 51>>

\* passwords offered to the endpoints
SysPasswords == {AdminPassword, <<97>>}
NewPasswords == {<<233, 97>>}
\* salts drawn by gensalt when a password is changed
ChangeSalts == {"saltB"}

(***************************************************************************)
(* The users table (models.py, class User): username -> row.  A User       *)
(* object is the row together with its username; NoUser is Python's None.  *)
(***************************************************************************)
Usernames == {"admin", "alice"}
\* names a client may try to log in with
LoginNames == Usernames \cup {"nouser"}

Row(id, digest, active) ==
    [id |-> id, hashed_password |-> digest, is_active |-> active]

UserOf(table, username) ==
    [username |-> username, id |-> table[username].id,
     hashed_password |-> table[username].hashed_password,
     is_active |-> table[username].is_active]

NoUser == [username |-> None, id |-> 0, hashed_password |-> Malformed,
           is_active |-> FALSE]

EmptyTable == [u \in {} |-> Row(0, Malformed, FALSE)]

\* the news and contacts tables (models.py): id -> text of the row; of a
\* news row the title is kept, of a contact row the message
NoRows == [i \in {} |-> None]

\* db.query(User).filter(User.username == username).first()
get_user_by_username(table, username) ==
    IF username \in DOMAIN table THEN UserOf(table, username) ELSE NoUser

authenticate_user(table, username, password) ==
    LET user == get_user_by_username(table, username)
    IN  IF user = NoUser THEN NoUser
        ELSE IF ~verify_password(password, user.hashed_password) THEN NoUser
        ELSE user

\* startup: the admin row is added when the table has none
create_admin_user(table, salt) ==
    IF get_user_by_username(table, "admin") # NoUser THEN table
    ELSE [u \in DOMAIN table \cup {"admin"} |->
            IF u = "admin"
            THEN Row(Cardinality(DOMAIN table) + 1,
                     get_password_hash(AdminPassword, salt), TRUE)
            ELSE table[u]]

(***************************************************************************)
(* Tokens: the payload {sub, type, exp} together with the key that signed  *)
(* it.  EmptyToken is the empty string.                                    *)
(***************************************************************************)
OtherKey == "some-other-key"
Keys == {SECRET_KEY, REFRESH_SECRET_KEY, OtherKey}

EmptyToken == [sub |-> None, type |-> None, exp |-> 0, key |-> "empty"]

jwt_encode(payload, key) ==
    [sub |-> payload.sub, type |-> payload.type, exp |-> payload.exp, key |-> key]

\* a variant that verifies the signature only
jwt_decode_noexp(token, key, t) ==
    IF token.key # key THEN [err |-> TRUE, sub |-> None, type |-> None]
    ELSE [err |-> FALSE, sub |-> token.sub, type |-> token.type]

\* jose: the signature is verified first, then exp is compared with the
\* clock (ExpiredSignatureError when exp < now); both are JWTError
jwt_decode(token, key, t) ==
    IF token.key # key THEN [err |-> TRUE, sub |-> None, type |-> None]
    ELSE IF token.exp < t THEN [err |-> TRUE, sub |-> None, type |-> None]
    ELSE [err |-> FALSE, sub |-> token.sub, type |-> token.type]

\* expires_delta is in minutes; 0 stands for None or an empty timedelta
create_access_token(data, expires_delta, t) ==
    LET expire == IF expires_delta # 0 THEN t + expires_delta
                  ELSE t + ACCESS_TOKEN_EXPIRE_MINUTES
    IN  jwt_encode([sub |-> data.sub, type |-> "access", exp |-> expire],
                   SECRET_KEY)

create_refresh_token(data, expires_delta, t) ==
    LET expire == IF expires_delta # 0 THEN t + expires_delta
                  ELSE t + REFRESH_TOKEN_EXPIRE_DAYS * MinutesPerDay
    IN  jwt_encode([sub |-> data.sub, type |-> "refresh", exp |-> expire],
                   REFRESH_SECRET_KEY)

(***************************************************************************)
(* HTTP results.                                                           *)
(***************************************************************************)
Bearer == "WWW-Authenticate: Bearer"

HTTPException(status_code, detail, headers) ==
    [status |-> status_code, detail |-> detail, headers |-> headers]

NoException == [status |-> 200, detail |-> None, headers |-> None]

\* result of a dependency: the exception it raised, or the user it returned
Raised(exc) == [exc |-> exc, user |-> NoUser]
Returned(user) == [exc |-> NoException, user |-> user]

\* a variant that does not look at the type claim
get_current_user_anytype(token, table, t) ==
    LET credentials_exception ==
            HTTPException(401, "Could not validate credentials", Bearer)
        payload == jwt_decode(token, SECRET_KEY, t)
    IN  IF payload.err \/ payload.sub = None THEN Raised(credentials_exception)
        ELSE LET user == get_user_by_username(table, payload.sub)
             IN  IF user = NoUser THEN Raised(credentials_exception)
                 ELSE Returned(user)

\* a variant that trusts the payload without looking the user up
get_current_user_frompayload(token, table, t) ==
    LET credentials_exception ==
            HTTPException(401, "Could not validate credentials", Bearer)
        payload == jwt_decode(token, SECRET_KEY, t)
    IN  IF payload.err THEN Raised(credentials_exception)
        ELSE IF payload.sub = None \/ payload.type # "access"
        THEN Raised(credentials_exception)
        ELSE Returned([username |-> payload.sub, id |-> 0,
                       hashed_password |-> Malformed, is_active |-> TRUE])

get_current_user(token, table, t) ==
    LET credentials_exception ==
            HTTPException(401, "Could not validate credentials", Bearer)
        payload == jwt_decode(token, SECRET_KEY, t)
    IN  IF payload.err THEN Raised(credentials_exception)
        ELSE IF payload.sub = None \/ payload.type # "access"
        THEN Raised(credentials_exception)
        ELSE LET user == get_user_by_username(table, payload.sub)
             IN  IF user = NoUser THEN Raised(credentials_exception)
                 ELSE Returned(user)

\* a variant that answers 403
get_current_user_from_refresh_token_forbidden(token, table, t) ==
    LET credentials_exception ==
            HTTPException(403, "Could not validate refresh token", None)
        payload == jwt_decode(token, REFRESH_SECRET_KEY, t)
    IN  IF payload.err THEN Raised(credentials_exception)
        ELSE IF payload.sub = None \/ payload.type # "refresh"
        THEN Raised(credentials_exception)
        ELSE LET user == get_user_by_username(table, payload.sub)
             IN  IF user = NoUser THEN Raised(credentials_exception)
                 ELSE Returned(user)

get_current_user_from_refresh_token(token, table, t) ==
    LET credentials_exception ==
            HTTPException(401, "Could not validate refresh token", None)
        payload == jwt_decode(token, REFRESH_SECRET_KEY, t)
    IN  IF payload.err THEN Raised(credentials_exception)
        ELSE IF payload.sub = None \/ payload.type # "refresh"
        THEN Raised(credentials_exception)
        ELSE LET user == get_user_by_username(table, payload.sub)
             IN  IF user = NoUser THEN Raised(credentials_exception)
                 ELSE Returned(user)

\* a variant that lets an inactive user pass
get_current_active_user_nocheck(token, table, t) ==
    get_current_user(token, table, t)

get_current_active_user(token, table, t) ==
    LET current == get_current_user(token, table, t)
    IN  IF current.exc # NoException THEN current
        ELSE IF ~current.user.is_active
        THEN Raised(HTTPException(400, "Inactive user", None))
        ELSE current

(***************************************************************************)
(* Database sessions.  Each get_db dependency calls SessionLocal() and so  *)
(* yields a session of its own; auth.get_db and main.get_db are different  *)
(* callables, so a request that depends on both holds two sessions.  A     *)
(* session tracks the objects it loaded (identity) and their pending       *)
(* changes (dirty); commit writes the pending changes of that session,     *)
(* close discards them.                                                    *)
(***************************************************************************)
auth_get_db == [identity |-> {}, dirty |-> {}]
main_get_db == [identity |-> {}, dirty |-> {}]

\* the session that ran the query keeps the object it returned
session_load(sess, user) ==
    IF user = NoUser THEN sess
    ELSE [sess EXCEPT !.identity = @ \cup {user.id}]

\* assigning to an attribute marks the object dirty in the session
\* that holds it
session_setattr(sess, changed) ==
    IF changed.id \in sess.identity
    THEN [sess EXCEPT !.dirty = {d \in @ : d.id # changed.id} \cup {changed}]
    ELSE sess

\* db.commit(): flush the pending changes of this session
session_commit(sess, table) ==
    [u \in DOMAIN table |->
        IF \E d \in sess.dirty : d.id = table[u].id
        THEN LET d == CHOOSE d \in sess.dirty : d.id = table[u].id
             IN  Row(d.id, d.hashed_password, d.is_active)
        ELSE table[u]]

(***************************************************************************)
(* Endpoints of main.py.  Each returns the response and the users table    *)
(* as the request leaves it.                                               *)
(***************************************************************************)
Response(exc) ==
    [status |-> exc.status, detail |-> exc.detail, headers |-> exc.headers,
     access_token |-> EmptyToken, refresh_token |-> EmptyToken,
     user |-> NoUser, message |-> None, rows |-> {}]

TokenResponse(access, refresh) ==
    [Response(NoException) EXCEPT !.access_token = access,
                                  !.refresh_token = refresh,
                                  !.message = "bearer"]

\* a variant that tells an unknown username apart
login_enumerating(table, username, password, t) ==
    LET user == authenticate_user(table, username, password)
    IN  IF get_user_by_username(table, username) = NoUser
        THEN Response(HTTPException(404, "User not found", None))
        ELSE IF user = NoUser
        THEN Response(HTTPException(401, "Incorrect username or password",
                                    Bearer))
        ELSE TokenResponse(
                create_access_token([sub |-> user.username],
                                    ACCESS_TOKEN_EXPIRE_MINUTES, t),
                create_refresh_token([sub |-> user.username],
                                     REFRESH_TOKEN_EXPIRE_DAYS * MinutesPerDay, t))

login(table, username, password, t) ==
    LET user == authenticate_user(table, username, password)
    IN  IF user = NoUser
        THEN Response(HTTPException(401, "Incorrect username or password",
                                    Bearer))
        ELSE TokenResponse(
                create_access_token([sub |-> user.username],
                                    ACCESS_TOKEN_EXPIRE_MINUTES, t),
                create_refresh_token([sub |-> user.username],
                                     REFRESH_TOKEN_EXPIRE_DAYS * MinutesPerDay, t))

\* a variant that validates the presented token as an access token
refresh_token_access_validator(token, table, t) ==
    IF token = EmptyToken
    THEN Response(HTTPException(400, "Refresh token is required", None))
    ELSE LET dep == get_current_user(token, table, t)
         IN  IF dep.exc # NoException THEN Response(dep.exc)
             ELSE TokenResponse(
                    create_access_token([sub |-> dep.user.username],
                                        ACCESS_TOKEN_EXPIRE_MINUTES, t),
                    create_refresh_token([sub |-> dep.user.username],
                                         REFRESH_TOKEN_EXPIRE_DAYS * MinutesPerDay, t))

\* a variant that issues the new pair for a fixed subject
refresh_token_admin(token, table, t) ==
    IF token = EmptyToken
    THEN Response(HTTPException(400, "Refresh token is required", None))
    ELSE LET dep == get_current_user_from_refresh_token(token, table, t)
         IN  IF dep.exc # NoException THEN Response(dep.exc)
             ELSE TokenResponse(
                    create_access_token([sub |-> "admin"],
                                        ACCESS_TOKEN_EXPIRE_MINUTES, t),
                    create_refresh_token([sub |-> "admin"],
                                         REFRESH_TOKEN_EXPIRE_DAYS * MinutesPerDay, t))

refresh_token(token, table, t) ==
    IF token = EmptyToken
    THEN Response(HTTPException(400, "Refresh token is required", None))
    ELSE LET dep == get_current_user_from_refresh_token(token, table, t)
         IN  IF dep.exc # NoException THEN Response(dep.exc)
             ELSE TokenResponse(
                    create_access_token([sub |-> dep.user.username],
                                        ACCESS_TOKEN_EXPIRE_MINUTES, t),
                    create_refresh_token([sub |-> dep.user.username],
                                         REFRESH_TOKEN_EXPIRE_DAYS * MinutesPerDay, t))

logout(token, table, t) ==
    LET dep == get_current_active_user(token, table, t)
    IN  IF dep.exc # NoException THEN Response(dep.exc)
        ELSE [Response(NoException) EXCEPT !.message = "Successfully logged out"]

get_current_user_info(token, table, t) ==
    LET dep == get_current_active_user(token, table, t)
    IN  IF dep.exc # NoException THEN Response(dep.exc)
        ELSE [Response(NoException) EXCEPT !.user = dep.user]

\* a variant that stores the new digest with an UPDATE before it verifies
\* the current password
change_password_write_first(token, cur, new, salt, table, t) ==
    LET dep == get_current_active_user(token, table, t)
    IN  IF dep.exc # NoException
        THEN [resp |-> Response(dep.exc), table |-> table]
        ELSE LET written == [table EXCEPT ![dep.user.username].hashed_password =
                                            get_password_hash(new, salt)]
             IN  IF ~verify_password(cur, dep.user.hashed_password)
                 THEN [resp |-> Response(HTTPException(400,
                                    "Incorrect current password", None)),
                       table |-> written]
                 ELSE [resp |-> [Response(NoException) EXCEPT
                                    !.message = "Password changed successfully"],
                       table |-> written]

\* current_user comes from get_current_active_user, whose get_current_user
\* queries through auth.get_db; db is the session of main.get_db
change_password(token, cur, new, salt, table, t) ==
    LET dep == get_current_active_user(token, table, t)
        auth_db == session_load(auth_get_db, dep.user)
        db == main_get_db
    IN  IF dep.exc # NoException
        THEN [resp |-> Response(dep.exc), table |-> table]
        ELSE IF ~verify_password(cur, dep.user.hashed_password)
        THEN [resp |-> Response(HTTPException(400,
                            "Incorrect current password", None)),
              table |-> table]
        ELSE LET changed == [dep.user EXCEPT !.hashed_password =
                                        get_password_hash(new, salt)]
                 auth_db2 == session_setattr(auth_db, changed)
                 db2 == session_setattr(db, changed)
                 \* db.commit(); afterwards both sessions are closed and
                 \* what auth_db2 still holds is discarded
                 committed == session_commit(db2, table)
             IN  [resp |-> [Response(NoException) EXCEPT
                                !.message = "Password changed successfully"],
                  table |-> committed]

\* db.refresh(instance): the instance must belong to this session
\* (InvalidRequestError otherwise)
session_refresh_raises(sess, user) == user.id \notin sess.identity

InternalServerError == HTTPException(500, "Internal Server Error", None)

\* PATCH /me.  update is the set of fields the body sets: is_active with
\* its value, or nothing.  current_user belongs to the session of
\* auth.get_db, db is the session of main.get_db.
update_current_user(token, update, table, t) ==
    LET dep == get_current_active_user(token, table, t)
        auth_db == session_load(auth_get_db, dep.user)
        db == main_get_db
    IN  IF dep.exc # NoException
        THEN [resp |-> Response(dep.exc), table |-> table]
        ELSE LET changed == IF update.set
                            THEN [dep.user EXCEPT !.is_active = update.value]
                            ELSE dep.user
                 auth_db2 == IF update.set THEN session_setattr(auth_db, changed)
                             ELSE auth_db
                 db2 == IF update.set THEN session_setattr(db, changed) ELSE db
                 committed == session_commit(db2, table)
             IN  IF session_refresh_raises(db2, changed)
                 THEN [resp |-> Response(InternalServerError),
                       table |-> committed]
                 ELSE [resp |-> [Response(NoException) EXCEPT
                                    !.user = UserOf(committed, changed.username)],
                       table |-> committed]

(***************************************************************************)
(* News and contact endpoints.  Rows are created, read and changed through *)
(* db, the session of main.get_db, which is also the one committed.  Each  *)
(* returns the response and the table as the request leaves it.  Requests  *)
(* carry no image.                                                         *)
(***************************************************************************)
NotFound(what) == HTTPException(404, what, None)

\* the id the database gives to a new row
NextId(rows) ==
    IF DOMAIN rows = {} THEN 1
    ELSE 1 + CHOOSE m \in DOMAIN rows : \A i \in DOMAIN rows : i <= m

AddRow(rows, text) ==
    [i \in DOMAIN rows \cup {NextId(rows)} |->
        IF i \in DOMAIN rows THEN rows[i] ELSE text]

RemoveRow(rows, id) == [i \in DOMAIN rows \ {id} |-> rows[i]]

RowsResponse(found) == [Response(NoException) EXCEPT !.rows = found]

Guarded(token, table, t, rows, body) ==
    LET dep == get_current_active_user(token, table, t)
    IN  IF dep.exc # NoException
        THEN [resp |-> Response(dep.exc), rows |-> rows]
        ELSE body

\* POST /news
create_news(token, title, rows, table, t) ==
    Guarded(token, table, t, rows,
        [resp |-> RowsResponse({<<NextId(rows), title>>}),
         rows |-> AddRow(rows, title)])

\* PUT /news/{news_id}: a title is taken when it is not empty
update_news(token, news_id, title, rows, table, t) ==
    Guarded(token, table, t, rows,
        IF news_id \notin DOMAIN rows
        THEN [resp |-> Response(NotFound("News not found")), rows |-> rows]
        ELSE LET after == IF title # None /\ title # ""
                          THEN [rows EXCEPT ![news_id] = title] ELSE rows
             IN  [resp |-> RowsResponse({<<news_id, after[news_id]>>}),
                  rows |-> after])

\* PATCH /news/{news_id}: a title is taken when it is given
patch_news(token, news_id, title, rows, table, t) ==
    Guarded(token, table, t, rows,
        IF news_id \notin DOMAIN rows
        THEN [resp |-> Response(NotFound("News not found")), rows |-> rows]
        ELSE LET after == IF title # None
                          THEN [rows EXCEPT ![news_id] = title] ELSE rows
             IN  [resp |-> RowsResponse({<<news_id, after[news_id]>>}),
                  rows |-> after])

\* DELETE /news/{news_id}
delete_news(token, news_id, rows, table, t) ==
    Guarded(token, table, t, rows,
        IF news_id \notin DOMAIN rows
        THEN [resp |-> Response(NotFound("News not found")), rows |-> rows]
        ELSE [resp |-> [Response(NoException) EXCEPT !.detail = "News deleted"],
              rows |-> RemoveRow(rows, news_id)])

\* POST /contact (public)
create_contact(text, rows) ==
    [resp |-> RowsResponse({<<NextId(rows), text>>}),
     rows |-> AddRow(rows, text)]

\* GET /contact
get_contacts(token, rows, table, t) ==
    Guarded(token, table, t, rows,
        [resp |-> RowsResponse({<<i, rows[i]>> : i \in DOMAIN rows}),
         rows |-> rows])

\* GET /contact/{contact_id}
get_contact(token, contact_id, rows, table, t) ==
    Guarded(token, table, t, rows,
        IF contact_id \notin DOMAIN rows
        THEN [resp |-> Response(NotFound("Contact not found")), rows |-> rows]
        ELSE [resp |-> RowsResponse({<<contact_id, rows[contact_id]>>}),
              rows |-> rows])

\* PATCH /contact/{contact_id}: only the fields the body sets
patch_contact(token, contact_id, text, rows, table, t) ==
    Guarded(token, table, t, rows,
        IF contact_id \notin DOMAIN rows
        THEN [resp |-> Response(NotFound("Contact not found")), rows |-> rows]
        ELSE LET after == IF text # None
                          THEN [rows EXCEPT ![contact_id] = text] ELSE rows
             IN  [resp |-> RowsResponse({<<contact_id, after[contact_id]>>}),
                  rows |-> after])

\* DELETE /contact/{contact_id}
delete_contact(token, contact_id, rows, table, t) ==
    Guarded(token, table, t, rows,
        IF contact_id \notin DOMAIN rows
        THEN [resp |-> Response(NotFound("Contact not found")), rows |-> rows]
        ELSE [resp |-> [Response(NoException) EXCEPT !.detail = "Contact deleted"],
              rows |-> RemoveRow(rows, contact_id)])

(***************************************************************************)
(* State.                                                                  *)
(*   users   the committed users table                                     *)
(*   now     the clock, in minutes                                         *)
(*   issued  tokens handed out and still held by clients, each with its    *)
(*           time of issue (the first MaxIssued pairs are tracked)         *)
(*   req     the last request, resp its response                           *)
(*   news, contacts  the committed news and contacts tables                *)
(*   ticks, dbops  count clock advances and out-of-band table changes      *)
(***************************************************************************)
Request(op, username, password, new_password, token) ==
    [op |-> op, username |-> username, password |-> password,
     new_password |-> new_password, token |-> token]

Idle == Request("idle", None, <<>>, <<>>, EmptyToken)
NoResponse == Response(HTTPException(0, None, None))

\* rows the table may hold before the server starts
AliceRows ==
    {Row(1, get_password_hash(<<97>>, "saltA"), TRUE),
     Row(1, Malformed, TRUE),
     Row(1, get_password_hash(<<97>>, "saltA"), FALSE)}

PreTables == {EmptyTable} \cup {("alice" :> r) : r \in AliceRows}

\* main.py:30-32 runs create_admin_user at import
InitTables == {create_admin_user(pre, "saltA") : pre \in PreTables}

Init ==
    /\ users \in InitTables
    /\ now = 0
    /\ ticks = 0
    /\ dbops = 0
    /\ issued = {}
    /\ req = Idle
    /\ resp = NoResponse
    /\ news = NoRows
    /\ contacts = NoRows

\* tokens a client may present: those handed out by this server, and
\* tokens from elsewhere signed with any of the keys
PresentedExp == 1000000
Presented ==
    {[sub |-> "alice", type |-> ty, exp |-> PresentedExp, key |-> k] :
        ty \in {"access", "refresh"}, k \in {SECRET_KEY, REFRESH_SECRET_KEY}}
    \cup {[sub |-> "alice", type |-> "access", exp |-> PresentedExp,
           key |-> OtherKey],
          [sub |-> None, type |-> "access", exp |-> PresentedExp,
           key |-> SECRET_KEY]}

TokenInputs == {i.tok : i \in issued} \cup Presented

Issue(r) ==
    IF r.status = 200 /\ Cardinality(issued) < 2 * MaxIssued
    THEN issued \cup {[tok |-> r.access_token, at |-> now],
                      [tok |-> r.refresh_token, at |-> now]}
    ELSE issued

\* POST /login
Login(username, password) ==
    LET r == login(users, username, password, now)
    IN  /\ req' = Request("login", username, password, <<>>, EmptyToken)
        /\ resp' = r
        /\ issued' = Issue(r)
        /\ UNCHANGED <<users, now, ticks, dbops, news, contacts>>

\* POST /refresh
Refresh(token) ==
    LET r == refresh_token(token, users, now)
    IN  /\ req' = Request("refresh", None, <<>>, <<>>, token)
        /\ resp' = r
        /\ issued' = Issue(r)
        /\ UNCHANGED <<users, now, ticks, dbops, news, contacts>>

\* POST /logout
Logout(token) ==
    /\ req' = Request("logout", None, <<>>, <<>>, token)
    /\ resp' = logout(token, users, now)
    /\ UNCHANGED <<users, now, ticks, dbops, issued, news, contacts>>

\* GET /me
Me(token) ==
    /\ req' = Request("me", None, <<>>, <<>>, token)
    /\ resp' = get_current_user_info(token, users, now)
    /\ UNCHANGED <<users, now, ticks, dbops, issued, news, contacts>>

\* POST /change-password
ChangePassword(token, cur, new, salt) ==
    LET r == change_password(token, cur, new, salt, users, now)
    IN  /\ req' = Request("change_password", None, cur, new, token)
        /\ resp' = r.resp
        /\ users' = r.table
        /\ UNCHANGED <<now, ticks, dbops, issued, news, contacts>>

\* the clock advances
\* one minute more than either lifetime
ClockSteps == {ACCESS_TOKEN_EXPIRE_MINUTES + 1,
               REFRESH_TOKEN_EXPIRE_DAYS * MinutesPerDay + 1}

Tick(d) ==
    /\ ticks < MaxTicks
    /\ now' = now + d
    /\ ticks' = ticks + 1
    /\ req' = Idle
    /\ resp' = NoResponse
    /\ UNCHANGED <<users, dbops, issued, news, contacts>>

\* the users table is maintained outside the API (there is no endpoint
\* that creates, renames or deletes a user): a row is deleted
DbDeleteUser(u) ==
    /\ dbops < MaxDbOps
    /\ u \in DOMAIN users
    /\ users' = [v \in DOMAIN users \ {u} |-> users[v]]
    /\ dbops' = dbops + 1
    /\ req' = Idle
    /\ resp' = NoResponse
    /\ UNCHANGED <<now, ticks, issued, news, contacts>>

\* ... or a username is changed
DbRenameUser(u, v) ==
    /\ dbops < MaxDbOps
    /\ u \in DOMAIN users
    /\ v \notin DOMAIN users
    /\ users' = [w \in (DOMAIN users \ {u}) \cup {v} |->
                    IF w = v THEN users[u] ELSE users[w]]
    /\ dbops' = dbops + 1
    /\ req' = Idle
    /\ resp' = NoResponse
    /\ UNCHANGED <<now, ticks, issued, news, contacts>>

Next ==
    \/ \E u \in LoginNames, p \in SysPasswords : Login(u, p)
    \/ \E tok \in TokenInputs \cup {EmptyToken} : Refresh(tok)
    \/ \E tok \in TokenInputs : Logout(tok)
    \/ \E tok \in TokenInputs : Me(tok)
    \/ \E tok \in TokenInputs, cur \in SysPasswords, new \in NewPasswords,
          s \in ChangeSalts : ChangePassword(tok, cur, new, s)
    \/ \E d \in ClockSteps : Tick(d)
    \/ \E u \in Usernames : DbDeleteUser(u)
    \/ \E u \in Usernames, v \in Usernames : DbRenameUser(u, v)

Spec == Init /\ [][Next]_vars

(***************************************************************************)
(* The content endpoints next to the account endpoints.  The table holds   *)
(* the admin and a deactivated alice; the clock stands still, so a token   *)
(* is refused for its key, its type or its subject and never for its age.  *)
(* A request records its operation and its token.                          *)
(***************************************************************************)
GuardInit ==
    /\ users = create_admin_user(
                  "alice" :> Row(1, get_password_hash(<<97>>, "saltA"), FALSE),
                  "saltA")
    /\ now = 0
    /\ ticks = 0
    /\ dbops = 0
    /\ issued = {}
    /\ req = Idle
    /\ resp = NoResponse
    /\ news = NoRows
    /\ contacts = NoRows

\* tokens handed out by this server, one forged with the server's key and
\* one signed with another key
GuardTokens ==
    {i.tok : i \in issued}
    \cup {[sub |-> "alice", type |-> "access", exp |-> PresentedExp,
           key |-> k] : k \in {SECRET_KEY, OtherKey}}

RowIds == 1 .. MaxRows
Titles == {"t1", "t2"}
Messages == {"m1", "m2"}
UserUpdates == {[set |-> FALSE, value |-> TRUE], [set |-> TRUE, value |-> FALSE],
                [set |-> TRUE, value |-> TRUE]}

ContentRequest(op, token) == Request(op, None, <<>>, <<>>, token)

\* PATCH /me
UpdateMe(token, update) ==
    LET r == update_current_user(token, update, users, now)
    IN  /\ req' = ContentRequest("update_current_user", token)
        /\ resp' = r.resp
        /\ users' = r.table
        /\ UNCHANGED <<now, ticks, dbops, issued, news, contacts>>

CreateNews(token, title) ==
    LET r == create_news(token, title, news, users, now)
    IN  /\ NextId(news) <= MaxRows
        /\ req' = ContentRequest("create_news", token)
        /\ resp' = r.resp
        /\ news' = r.rows
        /\ UNCHANGED <<users, now, ticks, dbops, issued, contacts>>

UpdateNews(token, news_id, title) ==
    LET r == update_news(token, news_id, title, news, users, now)
    IN  /\ req' = ContentRequest("update_news", token)
        /\ resp' = r.resp
        /\ news' = r.rows
        /\ UNCHANGED <<users, now, ticks, dbops, issued, contacts>>

PatchNews(token, news_id, title) ==
    LET r == patch_news(token, news_id, title, news, users, now)
    IN  /\ req' = ContentRequest("patch_news", token)
        /\ resp' = r.resp
        /\ news' = r.rows
        /\ UNCHANGED <<users, now, ticks, dbops, issued, contacts>>

DeleteNews(token, news_id) ==
    LET r == delete_news(token, news_id, news, users, now)
    IN  /\ req' = ContentRequest("delete_news", token)
        /\ resp' = r.resp
        /\ news' = r.rows
        /\ UNCHANGED <<users, now, ticks, dbops, issued, contacts>>

\* POST /contact reads no token; the request may carry one all the same
CreateContact(token, text) ==
    LET r == create_contact(text, contacts)
    IN  /\ NextId(contacts) <= MaxRows
        /\ req' = ContentRequest("create_contact", token)
        /\ resp' = r.resp
        /\ contacts' = r.rows
        /\ UNCHANGED <<users, now, ticks, dbops, issued, news>>

GetContacts(token) ==
    LET r == get_contacts(token, contacts, users, now)
    IN  /\ req' = ContentRequest("get_contacts", token)
        /\ resp' = r.resp
        /\ contacts' = r.rows
        /\ UNCHANGED <<users, now, ticks, dbops, issued, news>>

GetContact(token, contact_id) ==
    LET r == get_contact(token, contact_id, contacts, users, now)
    IN  /\ req' = ContentRequest("get_contact", token)
        /\ resp' = r.resp
        /\ contacts' = r.rows
        /\ UNCHANGED <<users, now, ticks, dbops, issued, news>>

PatchContact(token, contact_id, text) ==
    LET r == patch_contact(token, contact_id, text, contacts, users, now)
    IN  /\ req' = ContentRequest("patch_contact", token)
        /\ resp' = r.resp
        /\ contacts' = r.rows
        /\ UNCHANGED <<users, now, ticks, dbops, issued, news>>

DeleteContact(token, contact_id) ==
    LET r == delete_contact(token, contact_id, contacts, users, now)
    IN  /\ req' = ContentRequest("delete_contact", token)
        /\ resp' = r.resp
        /\ contacts' = r.rows
        /\ UNCHANGED <<users, now, ticks, dbops, issued, news>>

GuardNext ==
    \/ \E u \in Usernames, p \in SysPasswords : Login(u, p)
    \/ \E tok \in GuardTokens : Refresh(tok)
    \/ \E tok \in GuardTokens : Logout(tok)
    \/ \E tok \in GuardTokens : Me(tok)
    \/ \E tok \in GuardTokens, cur \in SysPasswords, new \in NewPasswords,
          s \in ChangeSalts : ChangePassword(tok, cur, new, s)
    \/ \E tok \in GuardTokens, up \in UserUpdates : UpdateMe(tok, up)
    \/ \E tok \in GuardTokens, title \in Titles : CreateNews(tok, title)
    \/ \E tok \in GuardTokens, id \in RowIds, title \in Titles \cup {None, ""} :
          UpdateNews(tok, id, title)
    \/ \E tok \in GuardTokens, id \in RowIds, title \in Titles \cup {None} :
          PatchNews(tok, id, title)
    \/ \E tok \in GuardTokens, id \in RowIds : DeleteNews(tok, id)
    \/ \E tok \in GuardTokens \cup {EmptyToken}, text \in Messages :
          CreateContact(tok, text)
    \/ \E tok \in GuardTokens : GetContacts(tok)
    \/ \E tok \in GuardTokens, id \in RowIds : GetContact(tok, id)
    \/ \E tok \in GuardTokens, id \in RowIds, text \in Messages \cup {None} :
          PatchContact(tok, id, text)
    \/ \E tok \in GuardTokens, id \in RowIds : DeleteContact(tok, id)

GuardSpec == GuardInit /\ [][GuardNext]_vars

(***************************************************************************)
(* The password hasher on its own: a digest is made from one password      *)
(* (new_password) and any password is then verified against it.            *)
(***************************************************************************)
HashInit ==
    /\ \E p2 \in Passwords, s \in Salts :
          /\ users = ("admin" :> Row(1, get_password_hash(p2, s), TRUE))
          /\ req = Request("get_password_hash", None, <<>>, p2, EmptyToken)
    /\ now = 0
    /\ ticks = 0
    /\ dbops = 0
    /\ issued = {}
    /\ resp = NoResponse
    /\ news = NoRows
    /\ contacts = NoRows

VerifyPassword(p1) ==
    /\ req.op = "get_password_hash"
    /\ req' = Request("verify_password", None, p1, req.new_password, EmptyToken)
    /\ resp' = [NoResponse EXCEPT !.message =
                  IF verify_password(p1, users["admin"].hashed_password)
                  THEN "True" ELSE "False"]
    /\ UNCHANGED <<users, now, ticks, dbops, issued, news, contacts>>

HashNext == \E p1 \in Passwords : VerifyPassword(p1)

HashSpec == HashInit /\ [][HashNext]_vars

(***************************************************************************)
(* Properties.                                                             *)
(***************************************************************************)
\* the UTF-8 encodings of p1 and p2 have the same first 72 bytes
FirstBytesEqual(p1, p2) ==
    LET e1 == utf8_encode(p1)
        e2 == utf8_encode(p2)
    IN  \A i \in 1..BcryptLimit :
            /\ (i <= Len(e1)) = (i <= Len(e2))
            /\ i <= Len(e1) => e1[i] = e2[i]

\* the user a change-password request was made for
Requester == get_current_active_user(req.token, users, now)

\* C1: after a successful change-password for user u the persisted digest
\* of u is hash(new_password): authenticating u with the new password
\* succeeds, and with the former current password fails when the two differ
\* within their first 72 bytes.
C1_ChangePersisted ==
    (req.op = "change_password" /\ resp.status = 200) =>
        /\ authenticate_user(users, Requester.user.username, req.new_password)
              # NoUser
        /\ ~FirstBytesEqual(req.password, req.new_password) =>
              authenticate_user(users, Requester.user.username, req.password)
                 = NoUser

\* what the code does instead: the table is the same after every
\* change-password request, successful or not
C1_ChangeNeverPersisted ==
    [][req'.op = "change_password" => users' = users]_vars

\* C2: a change-password whose current_password does not verify fails and
\* leaves the digest of every user as it was, so whatever authenticated
\* before still authenticates.
C2_FailedChangeKeepsDigests ==
    [][(/\ req'.op = "change_password"
        /\ req' # req
        /\ LET dep == get_current_active_user(req'.token, users, now)
           IN  /\ dep.exc = NoException
               /\ ~verify_password(req'.password, dep.user.hashed_password))
       => (/\ resp'.status # 200
           /\ users' = users
           /\ \A u \in LoginNames, p \in SysPasswords :
                 authenticate_user(users', u, p) = authenticate_user(users, u, p))
      ]_vars

C2_Witness ==
    /\ req.op = "change_password"
    /\ Requester.exc = NoException
    /\ ~verify_password(req.password, Requester.user.hashed_password)
    /\ resp.status # 200
    /\ \E p \in SysPasswords :
          authenticate_user(users, Requester.user.username, p) # NoUser

\* C8: verify_password(p1, get_password_hash(p2)) is true exactly when the
\* UTF-8 encodings of p1 and p2 agree on their first 72 bytes.
C8_VerifyIffFirst72Equal ==
    req.op = "verify_password" =>
        ((resp.message = "True") <=> FirstBytesEqual(req.password, req.new_password))

\* two different passwords that differ only beyond byte 72 verify
C8_Witness ==
    /\ req.op = "verify_password"
    /\ req.password # req.new_password
    /\ Len(utf8_encode(req.password)) > BcryptLimit
    /\ FirstBytesEqual(req.password, req.new_password)
    /\ resp.message = "True"

Accepted(dep) == dep.exc = NoException
IssuedTokens == {i.tok : i \in issued}

\* C3: get_current_user accepts only tokens signed with the access secret
\* that carry type=access, get_current_user_from_refresh_token only tokens
\* signed with the refresh secret that carry type=refresh; an issued refresh
\* token is never accepted as an access token, an issued access token is
\* never accepted by the refresh operation.
C3_TypeAndSecretSpecific ==
    /\ \A tok \in TokenInputs :
          /\ Accepted(get_current_user(tok, users, now)) =>
                (tok.key = SECRET_KEY /\ tok.type = "access")
          /\ Accepted(get_current_user_from_refresh_token(tok, users, now)) =>
                (tok.key = REFRESH_SECRET_KEY /\ tok.type = "refresh")
    /\ \A tok \in IssuedTokens :
          /\ tok.type = "refresh" => ~Accepted(get_current_user(tok, users, now))
          /\ tok.type = "access" => refresh_token(tok, users, now).status # 200
    /\ (req.op \in {"me", "logout", "change_password"} /\ resp.status = 200) =>
          (req.token.key = SECRET_KEY /\ req.token.type = "access")
    /\ (req.op = "refresh" /\ resp.status = 200) =>
          (req.token.key = REFRESH_SECRET_KEY /\ req.token.type = "refresh")

\* an unexpired refresh token of an existing user, handed out by the
\* server, was presented to /me and refused
C3_Witness ==
    /\ req.op = "me"
    /\ req.token \in IssuedTokens
    /\ req.token.type = "refresh"
    /\ req.token.exp >= now
    /\ req.token.sub \in DOMAIN users
    /\ resp.status = 401

\* C4: a token issued at time t expires at t + 15 minutes (access) or
\* t + 7 days (refresh); past its expiry it is rejected by its validator,
\* before its expiry it is accepted while its subject resolves.
Validate(tok) ==
    IF tok.type = "access" THEN get_current_user(tok, users, now)
    ELSE get_current_user_from_refresh_token(tok, users, now)

C4_ExpiryEnforced ==
    \A i \in issued :
        /\ i.tok.type = "access" => i.tok.exp = i.at + 15
        /\ i.tok.type = "refresh" => i.tok.exp = i.at + 7 * 24 * 60
        /\ now > i.tok.exp => ~Accepted(Validate(i.tok))
        /\ (now < i.tok.exp /\ i.tok.sub \in DOMAIN users) =>
              Accepted(Validate(i.tok))

\* an issued access token of an existing user was presented after its
\* expiry and refused
C4_Witness ==
    /\ req.op = "me"
    /\ req.token \in IssuedTokens
    /\ req.token.type = "access"
    /\ req.token.sub \in DOMAIN users
    /\ now > req.token.exp
    /\ resp.status = 401

\* C5: an accepted access token resolves to the record stored now under
\* its subject; right after issuance the access token resolves to the
\* record of the user it was issued for; a token whose subject is no longer
\* in the table is rejected.
C5_ResolvesCurrentRecord ==
    /\ \A tok \in TokenInputs :
          LET dep == get_current_user(tok, users, now)
          IN  /\ Accepted(dep) =>
                    (tok.sub \in DOMAIN users /\ dep.user = UserOf(users, tok.sub))
              /\ tok.sub \notin DOMAIN users => ~Accepted(dep)
    /\ (req.op = "login" /\ resp.status = 200) =>
          get_current_user(resp.access_token, users, now)
             = Returned(UserOf(users, req.username))
    /\ (req.op = "me" /\ resp.status = 200) =>
          resp.user = UserOf(users, req.token.sub)

\* an issued, unexpired access token whose user has since been deleted or
\* renamed was presented and refused
C5_Witness ==
    /\ req.op = "me"
    /\ req.token \in IssuedTokens
    /\ req.token.type = "access"
    /\ req.token.exp >= now
    /\ req.token.sub \notin DOMAIN users
    /\ resp.status = 401

\* C6: refresh with a valid unexpired refresh token of a resolvable user
\* succeeds, the new pair carries the subject of the presented token, and
\* each new token is accepted by its own validator.
C6_RefreshKeepsSubject ==
    req.op = "refresh" =>
        /\ (/\ req.token.key = REFRESH_SECRET_KEY
            /\ req.token.type = "refresh"
            /\ req.token.exp >= now
            /\ req.token.sub \in DOMAIN users) => resp.status = 200
        /\ resp.status = 200 =>
              /\ resp.access_token.sub = req.token.sub
              /\ resp.refresh_token.sub = req.token.sub
              /\ Accepted(get_current_user(resp.access_token, users, now))
              /\ Accepted(get_current_user_from_refresh_token(
                            resp.refresh_token, users, now))

\* a refresh succeeded although the access token of the original pair has
\* expired
C6_Witness ==
    /\ req.op = "refresh"
    /\ resp.status = 200
    /\ \E i \in issued :
          /\ i.tok = req.token
          /\ i.at + ACCESS_TOKEN_EXPIRE_MINUTES < now
          /\ ~Accepted(get_current_user(
                 create_access_token([sub |-> i.tok.sub],
                                     ACCESS_TOKEN_EXPIRE_MINUTES, i.at),
                 users, now))

\* C7: a failed login looks the same whether or not the username exists:
\* authenticate_user returns the same value and the endpoint the same 401
\* response for an unknown username as for a known one with a wrong
\* password.
C7_NoEnumeration ==
    /\ \A u1 \in LoginNames \ DOMAIN users, u2 \in DOMAIN users,
          p1 \in SysPasswords, p2 \in SysPasswords :
          ~verify_password(p2, users[u2].hashed_password) =>
              /\ authenticate_user(users, u1, p1)
                    = authenticate_user(users, u2, p2)
              /\ login(users, u1, p1, now) = login(users, u2, p2, now)
              /\ login(users, u1, p1, now).status = 401
    /\ (req.op = "login" /\ resp.status # 200) =>
          resp = Response(HTTPException(401, "Incorrect username or password",
                                        Bearer))

\* a login with an unknown username failed while the table holds a user
\* for whom the same password is wrong
C7_Witness ==
    /\ req.op = "login"
    /\ req.username \notin DOMAIN users
    /\ resp.status = 401
    /\ \E u2 \in DOMAIN users :
          /\ users[u2].hashed_password.salt \in Salts
          /\ ~verify_password(req.password, users[u2].hashed_password)

\* a stored digest that bcrypt cannot parse
IsMalformed(digest) == digest.salt \notin Salts

LoginFailure ==
    Response(HTTPException(401, "Incorrect username or password", Bearer))
WrongCurrentPassword ==
    Response(HTTPException(400, "Incorrect current password", None))

\* C9: for a malformed stored digest verify_password returns false for
\* every password, so login fails as for a wrong password and
\* change-password answers as for a wrong current password and leaves the
\* table as it is.
C9_FailClosed ==
    \A u \in DOMAIN users :
        IsMalformed(users[u].hashed_password) =>
            /\ \A p \in SysPasswords :
                  /\ verify_password(p, users[u].hashed_password) = FALSE
                  /\ authenticate_user(users, u, p) = NoUser
                  /\ login(users, u, p, now) = LoginFailure
            /\ \A tok \in TokenInputs, p \in SysPasswords, new \in NewPasswords,
                  s \in ChangeSalts :
                  LET dep == get_current_active_user(tok, users, now)
                      r == change_password(tok, p, new, s, users, now)
                  IN  (Accepted(dep) /\ dep.user.username = u) =>
                         (r.resp = WrongCurrentPassword /\ r.table = users)
            /\ (req.op = "login" /\ req.username = u) => resp = LoginFailure
            /\ (/\ req.op = "change_password"
                /\ Accepted(Requester)
                /\ Requester.user.username = u) => resp = WrongCurrentPassword

\* change-password was called for a user whose stored digest is malformed
C9_Witness ==
    /\ req.op = "change_password"
    /\ Accepted(Requester)
    /\ IsMalformed(Requester.user.hashed_password)
    /\ resp = WrongCurrentPassword

\* the request was refused before the password was looked at
TokenRefused ==
    \/ /\ req.op \in {"me", "logout", "change_password"}
       /\ ~Accepted(get_current_user(req.token, users, now))
    \/ /\ req.op = "refresh"
       /\ req.token # EmptyToken
       /\ ~Accepted(get_current_user_from_refresh_token(req.token, users, now))

CurrentPasswordRefused ==
    /\ req.op = "change_password"
    /\ Accepted(Requester)
    /\ ~verify_password(req.password, Requester.user.hashed_password)

InactiveRefused ==
    /\ req.op \in {"me", "logout", "change_password"}
    /\ Accepted(get_current_user(req.token, users, now))
    /\ ~get_current_user(req.token, users, now).user.is_active

MalformedRequest == req.op = "refresh" /\ req.token = EmptyToken

\* C10 as stated: every authentication failure, a change-password with a
\* wrong current password included, is answered with 401, and 400 is
\* answered only to a malformed request.
C10_AllFailures401 ==
    /\ (req.op = "login" /\ resp.status # 200) => resp.status = 401
    /\ TokenRefused => resp.status = 401
    /\ CurrentPasswordRefused => resp.status = 401
    /\ resp.status = 400 => MalformedRequest

\* C10 as the code has it: a failed login and a refused token (invalid,
\* expired, wrong type, unresolvable subject) are answered with 401; a
\* change-password with a wrong current password is answered with 400; 400
\* is answered only to that, to an inactive user and to an empty refresh
\* token.
C10_FailureStatus ==
    /\ (req.op = "login" /\ resp.status # 200) => resp.status = 401
    /\ TokenRefused => resp.status = 401
    /\ CurrentPasswordRefused => resp.status = 400
    /\ resp.status = 400 =>
          (MalformedRequest \/ InactiveRefused \/ CurrentPasswordRefused)
    /\ resp.status \in {0, 200, 400, 401}

\* the refresh operation refused an access token handed out by the server
C10_Witness ==
    /\ req.op = "refresh"
    /\ req.token \in IssuedTokens
    /\ req.token.type = "access"
    /\ resp.status = 401

\* C11: there is no revocation.  Whatever requests were made since it was
\* handed out, an issued refresh token that has not expired and whose
\* subject resolves is accepted by the refresh operation, which answers
\* with a pair; an issued access token that has not expired and whose
\* subject resolves is accepted by get_current_user, after a logout too.
C11_NoRevocation ==
    \A i \in issued :
          (i.tok.exp >= now /\ i.tok.sub \in DOMAIN users) =>
              /\ i.tok.type = "refresh" =>
                    LET r == refresh_token(i.tok, users, now)
                    IN  /\ r.status = 200
                        /\ r.refresh_token.sub = i.tok.sub
              /\ i.tok.type = "access" =>
                    /\ Accepted(get_current_user(i.tok, users, now))
                    /\ get_current_user(i.tok, users, now).user.is_active =>
                          logout(i.tok, users, now).status = 200

\* an issued refresh token was used after time had passed, the answer was
\* a different pair, and the token used is still good for another refresh
C11_Witness ==
    /\ req.op = "refresh"
    /\ resp.status = 200
    /\ req.token \in IssuedTokens
    /\ resp.refresh_token # req.token
    /\ refresh_token(req.token, users, now).status = 200

\* the endpoints that depend on get_current_active_user
ProtectedOps ==
    {"logout", "me", "change_password", "update_current_user",
     "create_news", "update_news", "patch_news", "delete_news",
     "get_contacts", "get_contact", "patch_contact", "delete_contact"}

\* the endpoints that write a contact row
ContactWriteOps == {"create_contact", "patch_contact", "delete_contact"}

\* a request to one of ops with a valid access token of a deactivated user
\* is answered 400 "Inactive user" and persists nothing
InactiveRejected(ops) ==
    LET cur == get_current_user(req'.token, users, now)
    IN  (/\ req'.op \in ops
         /\ Accepted(cur)
         /\ ~cur.user.is_active)
            => /\ resp'.status = 400
               /\ resp'.detail = "Inactive user"
               /\ users' = users
               /\ news' = news
               /\ contacts' = contacts

\* login and refresh hand a deactivated user a token pair for their own
\* subject
InactiveStillIssued ==
    LET found == get_user_by_username(users, req'.username)
        sub == get_current_user_from_refresh_token(req'.token, users, now)
    IN  /\ (/\ req'.op = "login"
            /\ found # NoUser
            /\ ~found.is_active
            /\ verify_password(req'.password, found.hashed_password))
               => /\ resp'.status = 200
                  /\ resp'.access_token.sub = req'.username
                  /\ resp'.refresh_token.sub = req'.username
        /\ (/\ req'.op = "refresh"
            /\ Accepted(sub)
            /\ ~sub.user.is_active)
               => /\ resp'.status = 200
                  /\ resp'.access_token.sub = sub.user.username
                  /\ resp'.refresh_token.sub = sub.user.username

\* C12 as stated: every news and contact write endpoint is among the
\* guarded ones, so also POST /contact refuses the token of a deactivated
\* user and persists nothing.
C12_AllWritesGuarded ==
    [][/\ InactiveRejected(ProtectedOps \cup ContactWriteOps)
       /\ InactiveStillIssued]_vars

\* C12: a request to an endpoint that depends on get_current_active_user
\* (logout, GET and PATCH /me, change-password, the four news write
\* endpoints, the contact read endpoints, PATCH and DELETE /contact/{id})
\* that carries a valid access token of a user whose is_active is false is
\* answered 400 "Inactive user" and leaves users, news and contacts as they
\* were; login and refresh do not look at is_active and hand such a user a
\* token pair for their own subject; POST /contact has no dependency on the
\* token and stores a row whatever token the request carries.
C12_InactiveRejected ==
    [][/\ InactiveRejected(ProtectedOps)
       /\ InactiveStillIssued
       /\ req'.op = "create_contact" =>
             /\ resp'.status = 200
             /\ DOMAIN contacts' = DOMAIN contacts \cup {NextId(contacts)}
             /\ \A i \in DOMAIN contacts : contacts'[i] = contacts[i]]_vars

\* a deactivated user who logged in asks to delete an existing contact
\* row and is refused
C12_Witness ==
    /\ req.op = "delete_contact"
    /\ req.token \in IssuedTokens
    /\ Accepted(get_current_user(req.token, users, now))
    /\ ~get_current_user(req.token, users, now).user.is_active
    /\ resp.status = 400
    /\ contacts # NoRows

====
